---- MODULE Spec2Model ----
(***************************************************************************)
(* GuardSpine connector template.                                          *)
(*                                                                         *)
(* Two variants of the GuardSpineConnector class are modelled:             *)
(*   - src/src/connector.ts : emitEvidenceBundle delegates sealing to the  *)
(*     external module @guardspine/kernel (specification Spec);            *)
(*   - src/unnamed/part_001 : emitEvidenceBundle seals locally with        *)
(*     buildImmutabilityProof (specification SpecChain).                   *)
(*                                                                         *)
(* Strings are TLA+ strings.  sha256 is modelled symbolically: the digest  *)
(* of s is the term "H(s)", so distinct inputs have distinct digests and   *)
(* a join of digests parses back uniquely, as a join of fixed-width hex    *)
(* digests does.                                                           *)
(***************************************************************************)
EXTENDS Integers, Sequences, FiniteSets, TLC

VARIABLES
    connected,      \* GuardSpineConnector.connected
    everConnected,  \* history: some connect() has completed since construction
    lastLifecycle,  \* history: the most recent completed lifecycle call
    kernelModule,   \* connector.ts: what import("@guardspine/kernel") yields in this process
    calls,          \* connector.ts: the emitEvidenceBundle calls suspended at their await
    result,         \* outcome of the most recently settled connector call
    clock,          \* the wall clock read by new Date()
    uuidCount,      \* number of randomUUID() values drawn so far
    previousBundle, \* part_001: the bundle returned by the emitEvidenceBundle call before last
    lastBundle,     \* part_001: the bundle returned by the last emitEvidenceBundle call
    verdict         \* outcome of the most recent verification of a bundle

vars == <<connected, everConnected, lastLifecycle, kernelModule, calls, result, clock, uuidCount,
          previousBundle, lastBundle, verdict>>

(***************************************************************************)
(* Bounds                                                                  *)
(***************************************************************************)
MaxItems == 3       \* longest item sequence handed to emitEvidenceBundle
MaxClock == 1       \* the clock advances at most this far
MaxUuid == 2        \* at most this many randomUUID() draws
MaxDraft == 1       \* connector.ts: longest item sequence handed to emitEvidenceBundle

(***************************************************************************)
(* Values                                                                  *)
(***************************************************************************)
NOT_CONNECTED == "Connector is not connected. Call connect() before fetching artifacts."
NOT_IMPLEMENTED == "fetchArtifacts() must be implemented by your connector subclass."
ConnectorId == "conn"

\* A payload (Record<string, unknown>) is the sequence of its <<key, value>>
\* entries in insertion order; values are numbers in their textual form.
PayloadAB == << <<"a", "1">>, <<"b", "2">> >>
PayloadBA == << <<"b", "2">>, <<"a", "1">> >>
PayloadAB3 == << <<"a", "1">>, <<"b", "3">> >>

\* types.ts EvidenceItem; hasTags is FALSE when the optional tags are undefined.
EvidenceItem(id, payload, hasTags, tags) ==
    [id |-> id, source |-> ConnectorId, kind |-> "generic", createdAt |-> "T0",
     payload |-> payload, hasTags |-> hasTags, tags |-> tags]

ChainItems == {EvidenceItem("i1", p, FALSE, <<>>) : p \in {PayloadAB, PayloadBA}}

SeqsUpTo(S, n) == UNION {[1..k -> S] : k \in 0..n}

\* Two payloads are structurally equal when they hold the same entries,
\* whatever the insertion order.
Entries(p) == {p[i] : i \in 1..Len(p)}
StructurallyEqual(x, y) ==
    /\ x.id = y.id /\ x.source = y.source /\ x.kind = y.kind
    /\ x.createdAt = y.createdAt
    /\ Entries(x.payload) = Entries(y.payload)
    /\ x.hasTags = y.hasTags /\ x.tags = y.tags

(***************************************************************************)
(* Strings, JSON.stringify and sha256                                      *)
(***************************************************************************)
RECURSIVE Join(_, _)
\* Array.prototype.join
Join(strs, sep) ==
    IF Len(strs) = 0 THEN ""
    ELSE IF Len(strs) = 1 THEN strs[1]
    ELSE strs[1] \o sep \o Join(Tail(strs), sep)

Quote(s) == "\"" \o s \o "\""

\* JSON.stringify of a payload object: own keys in insertion order.
StringifyPayload(p) ==
    "{" \o Join([i \in 1..Len(p) |-> Quote(p[i][1]) \o ":" \o p[i][2]], ",") \o "}"

JSONstringifyNoPayload(item) ==
    "{" \o "\"id\":" \o Quote(item.id)
        \o ",\"source\":" \o Quote(item.source)
        \o ",\"kind\":" \o Quote(item.kind)
        \o ",\"createdAt\":" \o Quote(item.createdAt)
        \o "}"

\* JSON.stringify(item) for an EvidenceItem: keys in insertion order, an
\* undefined tags property is left out.
JSONstringify(item) ==
    "{" \o "\"id\":" \o Quote(item.id)
        \o ",\"source\":" \o Quote(item.source)
        \o ",\"kind\":" \o Quote(item.kind)
        \o ",\"createdAt\":" \o Quote(item.createdAt)
        \o ",\"payload\":" \o StringifyPayload(item.payload)
        \o (IF item.hasTags
            THEN ",\"tags\":[" \o Join([i \in 1..Len(item.tags) |-> Quote(item.tags[i])], ",") \o "]"
            ELSE "")
        \o "}"

\* createHash("sha256").update(s).digest("hex")
sha256hex(s) == "H(" \o s \o ")"

\* new Date().toISOString() at clock value t
toISOString(t) == "T" \o ToString(t)

\* the n-th value drawn from randomUUID()
randomUUID(n) == "uuid-" \o ToString(n)

(***************************************************************************)
(* part_001: buildImmutabilityProof                                        *)
(***************************************************************************)
GENESIS == "null"   \* let previousHash: string | null = null

RECURSIVE BuildChain(_, _, _, _)
\* the for-loop of buildImmutabilityProof: chain so far, previousHash, rest
BuildChain(rest, previousHash, chain, now) ==
    IF Len(rest) = 0 THEN chain
    ELSE LET content == JSONstringify(Head(rest))
             hash == sha256hex(content)
             link == [hash |-> hash, previousHash |-> previousHash,
                      timestamp |-> toISOString(now)]
         IN BuildChain(Tail(rest), hash, Append(chain, link), now)

RECURSIVE BuildChainStalePrev(_, _, _, _)
BuildChainStalePrev(rest, previousHash, chain, now) ==
    IF Len(rest) = 0 THEN chain
    ELSE LET content == JSONstringify(Head(rest))
             hash == sha256hex(content)
             link == [hash |-> hash, previousHash |-> previousHash,
                      timestamp |-> toISOString(now)]
         IN BuildChainStalePrev(Tail(rest), previousHash, Append(chain, link), now)

RECURSIVE BuildChainClock(_, _, _, _)
BuildChainClock(rest, previousHash, chain, now) ==
    IF Len(rest) = 0 THEN chain
    ELSE LET content == JSONstringify(Head(rest)) \o toISOString(now)
             hash == sha256hex(content)
             link == [hash |-> hash, previousHash |-> previousHash,
                      timestamp |-> toISOString(now)]
         IN BuildChainClock(Tail(rest), hash, Append(chain, link), now)

RECURSIVE BuildChainNoPayload(_, _, _, _)
BuildChainNoPayload(rest, previousHash, chain, now) ==
    IF Len(rest) = 0 THEN chain
    ELSE LET content == JSONstringifyNoPayload(Head(rest))
             hash == sha256hex(content)
             link == [hash |-> hash, previousHash |-> previousHash,
                      timestamp |-> toISOString(now)]
         IN BuildChainNoPayload(Tail(rest), hash, Append(chain, link), now)

Hashes(chain) == [i \in 1..Len(chain) |-> chain[i].hash]

ProofOf(chain, rootHash) ==
    [version |-> "0.2.0", algorithm |-> "sha256", chain |-> chain, rootHash |-> rootHash]

\* mutant: previousHash is never advanced
buildImmutabilityProofStalePrev(items, now) ==
    LET chain == BuildChainStalePrev(items, GENESIS, <<>>, now)
    IN ProofOf(chain, sha256hex(Join(Hashes(chain), "")))

\* mutant: the root is the hash of the chain tip only
buildImmutabilityProofTipRoot(items, now) ==
    LET chain == BuildChain(items, GENESIS, <<>>, now)
    IN ProofOf(chain, sha256hex(IF Len(chain) = 0 THEN "" ELSE chain[Len(chain)].hash))

\* mutant: the link hashes are joined with a separator
buildImmutabilityProofCommaRoot(items, now) ==
    LET chain == BuildChain(items, GENESIS, <<>>, now)
    IN ProofOf(chain, sha256hex(Join(Hashes(chain), ",")))

\* mutant: the link timestamp is hashed with the item
buildImmutabilityProofClock(items, now) ==
    LET chain == BuildChainClock(items, GENESIS, <<>>, now)
    IN ProofOf(chain, sha256hex(Join(Hashes(chain), "")))

\* mutant: the payload is left out of the hashed content
buildImmutabilityProofNoPayload(items, now) ==
    LET chain == BuildChainNoPayload(items, GENESIS, <<>>, now)
    IN ProofOf(chain, sha256hex(Join(Hashes(chain), "")))

buildImmutabilityProof(items, now) ==
    LET chain == BuildChain(items, GENESIS, <<>>, now)
        rootHash == sha256hex(Join(Hashes(chain), ""))
    IN ProofOf(chain, rootHash)

(***************************************************************************)
(* Verification of a bundle against the proof it carries (spec.md 4.4)     *)
(***************************************************************************)
\* positions (1-based) at which the recomputed chain differs from the carried one
Divergent(recomputed, carried) ==
    {i \in 1..Len(carried) :
        \/ recomputed[i].hash # carried[i].hash
        \/ recomputed[i].previousHash # carried[i].previousHash}

Min(S) == CHOOSE m \in S : \A n \in S : m <= n

\* Valid, Tampered (with the first divergent zero-based sequence number) or
\* Malformed; every hash is recomputed from the items.
Verifier(items, proof, now) ==
    LET again == buildImmutabilityProof(items, now)
    IN IF Len(items) # Len(proof.chain)
       THEN [status |-> "Malformed", at |-> -1]
       ELSE IF Divergent(again.chain, proof.chain) # {}
       THEN [status |-> "Tampered", at |-> Min(Divergent(again.chain, proof.chain)) - 1]
       ELSE IF again.rootHash # proof.rootHash
       THEN [status |-> "Tampered", at |-> Len(items)]
       ELSE [status |-> "Valid", at |-> -1]

(***************************************************************************)
(* connector.ts: values                                                    *)
(***************************************************************************)
KERNEL_REQUIRED ==
    "@guardspine/kernel is required for sealing. Install with: npm install @guardspine/kernel"
NO_SEAL_BUNDLE == "@guardspine/kernel does not expose sealBundle()"
SEALING_FAILED == "Kernel sealing failed to return v0.2.0 proof data."
KERNEL_THREW == "sealBundle threw"

\* import("@guardspine/kernel") rejects, resolves to a module without a
\* sealBundle function, or resolves to a module with one
KernelModules == {"missing", "noSealBundle", "ok"}

\* the callers that may have an emitEvidenceBundle call in flight
CallIds == {"c1", "c2"}

\* items handed to connector.ts emitEvidenceBundle: one without an id and
\* without tags, one with both
KernelInputs ==
    {EvidenceItem("", PayloadAB, FALSE, <<>>), EvidenceItem("i1", PayloadBA, TRUE, <<"t">>)}

\* a property that may be undefined
Some(v) == [defined |-> TRUE, value |-> v]
UndefinedArray == [defined |-> FALSE, value |-> <<>>]
UndefinedString == [defined |-> FALSE, value |-> ""]

\* JavaScript truthiness of an array-valued and of a string-valued property
TruthyArray(o) == o.defined
TruthyString(o) == o.defined /\ o.value # ""

\* a call frame: where it is suspended, the public method that started it,
\* its items, the items it was given (history), how its fetch ended and the
\* steps of collectAndEmit it has run (history)
IdleCall ==
    [pc |-> "idle", via |-> "", items |-> <<>>, given |-> <<>>,
     fetchError |-> "", artifacts |-> <<>>, stages |-> <<>>]

NoWireBundle ==
    [version |-> "", bundle_id |-> "", created_at |-> "", items |-> UndefinedArray,
     immutability_proof |-> [hash_chain |-> UndefinedArray, root_hash |-> UndefinedString],
     metadata |-> [connector_id |-> ""]]

NoResult ==
    [op |-> "none", status |-> "none", error |-> "",
     input |-> <<>>, artifacts |-> <<>>, bundle |-> NoWireBundle,
     fetchError |-> "", stages |-> <<>>]

Threw(op, input, error) ==
    [NoResult EXCEPT !.op = op, !.status = "threw", !.error = error,
                     !.input = input]

\* the outcome r as the settlement of the public method that owns the frame
SettledBy(frame, r) ==
    [r EXCEPT !.op = frame.via, !.fetchError = frame.fetchError, !.stages = frame.stages]

(***************************************************************************)
(* connector.ts: helpers                                                   *)
(***************************************************************************)
\* mutant: the connection check is skipped
ensureConnectedSkipped(isConnected) == ""

\* ensureConnected: the error thrown, "" when none
ensureConnected(isConnected) ==
    IF ~isConnected THEN NOT_CONNECTED ELSE ""

\* loadKernel: the error thrown, "" when the kernel is returned
loadKernel(module) ==
    IF module = "missing" THEN KERNEL_REQUIRED
    ELSE IF module = "noSealBundle" THEN NO_SEAL_BUNDLE
    ELSE ""

\* toKernelItem(item, index), index zero-based
toKernelItem(item, index) ==
    [item_id |-> IF item.id # "" THEN item.id ELSE "item-" \o ToString(index),
     content_type |-> "guardspine/connector/" \o item.kind,
     content |-> [source |-> item.source, kind |-> item.kind,
                  created_at |-> item.createdAt, payload |-> item.payload,
                  tags |-> IF item.hasTags THEN item.tags ELSE <<>>]]

toProof(chain, rootHash) ==
    [hash_chain |-> chain, root_hash |-> rootHash]

\* the draft handed to kernel.sealBundle
Draft(bundleId, createdAt, items) ==
    [bundle_id |-> bundleId, version |-> "0.2.0", created_at |-> createdAt,
     items |-> [i \in 1..Len(items) |-> toKernelItem(items[i], i - 1)],
     metadata |-> [connector_id |-> ConnectorId]]

(***************************************************************************)
(* The external kernel: what sealBundle(draft) may hand back.  The kernel  *)
(* is not part of this repository; its hashes are opaque strings.          *)
(***************************************************************************)
KernelItem(it, i) ==
    [item_id |-> it.item_id, sequence |-> i - 1, content_type |-> it.content_type,
     content |-> it.content, content_hash |-> "sha256:c" \o ToString(i - 1)]

KernelLink(id, ctype, i) ==
    [sequence |-> i - 1, item_id |-> id, content_type |-> ctype,
     content_hash |-> "sha256:c" \o ToString(i - 1),
     previous_hash |-> IF i = 1 THEN "genesis" ELSE "sha256:h" \o ToString(i - 2),
     chain_hash |-> "sha256:h" \o ToString(i - 1)]

KernelItems(draft) == [i \in 1..Len(draft.items) |-> KernelItem(draft.items[i], i)]
KernelChain(draft) ==
    [i \in 1..Len(draft.items) |->
        KernelLink(draft.items[i].item_id, draft.items[i].content_type, i)]

SealedObject(items, hashChain, rootHash) ==
    [threw |-> FALSE, defined |-> TRUE, items |-> items,
     immutabilityProof |-> [defined |-> TRUE, hashChain |-> hashChain, rootHash |-> rootHash]]

SealedWellFormed(draft) ==
    SealedObject(Some(KernelItems(draft)), Some(KernelChain(draft)), Some("sha256:root"))

SealBundleOutcomes(draft) ==
    LET ok == SealedWellFormed(draft)
        chain == KernelChain(draft)
        n == Len(chain)
    IN {ok,
        [ok EXCEPT !.threw = TRUE],
        [ok EXCEPT !.defined = FALSE],
        [ok EXCEPT !.items = UndefinedArray],
        [ok EXCEPT !.immutabilityProof.defined = FALSE],
        [ok EXCEPT !.immutabilityProof.hashChain = UndefinedArray],
        [ok EXCEPT !.immutabilityProof.rootHash = UndefinedString],
        [ok EXCEPT !.immutabilityProof.rootHash = Some("")],
        \* one link more than items
        [ok EXCEPT !.immutabilityProof.hashChain =
            Some(Append(chain, KernelLink("extra", "guardspine/connector/generic", n + 1)))]}
       \cup
       \* a link naming another item
       (IF n = 0 THEN {}
        ELSE {[ok EXCEPT !.immutabilityProof.hashChain =
                  Some([chain EXCEPT ![1].item_id = "other"])]})

\* mutant: only an undefined rootHash is rejected, an empty one passes
SealedIncompleteUndefinedOnly(sealed) ==
    \/ ~sealed.defined
    \/ ~TruthyArray(sealed.items)
    \/ ~sealed.immutabilityProof.defined
    \/ ~TruthyArray(sealed.immutabilityProof.hashChain)
    \/ ~sealed.immutabilityProof.rootHash.defined

\* !sealed?.items || !sealed?.immutabilityProof?.hashChain
\*                 || !sealed?.immutabilityProof?.rootHash
SealedIncomplete(sealed) ==
    \/ ~sealed.defined
    \/ ~TruthyArray(sealed.items)
    \/ ~sealed.immutabilityProof.defined
    \/ ~TruthyArray(sealed.immutabilityProof.hashChain)
    \/ ~TruthyString(sealed.immutabilityProof.rootHash)

(***************************************************************************)
(* Initial state: a freshly constructed connector                          *)
(***************************************************************************)
NoBundle ==
    [schemaVersion |-> "", bundleId |-> "", connectorId |-> "", createdAt |-> "",
     items |-> <<>>, proof |-> ProofOf(<<>>, "")]
NoVerdict == [bundleId |-> "", tamperedAt |-> -1, status |-> "none", at |-> -1]

Init ==
    /\ connected = FALSE
    /\ everConnected = FALSE
    /\ lastLifecycle = "none"
    /\ kernelModule \in KernelModules
    /\ calls = [c \in CallIds |-> IdleCall]
    /\ result = NoResult
    /\ clock = 0
    /\ uuidCount = 0
    /\ previousBundle = NoBundle
    /\ lastBundle = NoBundle
    /\ verdict = NoVerdict

(***************************************************************************)
(* connector.ts: lifecycle and data retrieval                              *)
(***************************************************************************)
ChainUnchanged == UNCHANGED <<previousBundle, lastBundle, verdict>>

connect ==
    /\ connected' = TRUE
    /\ everConnected' = TRUE
    /\ lastLifecycle' = "connect"
    /\ UNCHANGED <<kernelModule, calls, result, clock, uuidCount>>
    /\ ChainUnchanged

\* mutant: the connection flag survives disconnect()
disconnectLeavesConnected ==
    /\ lastLifecycle' = "disconnect"
    /\ UNCHANGED <<connected, everConnected, kernelModule, calls, result, clock, uuidCount>>
    /\ ChainUnchanged

disconnect ==
    /\ connected' = FALSE
    /\ lastLifecycle' = "disconnect"
    /\ UNCHANGED <<everConnected, kernelModule, calls, result, clock, uuidCount>>
    /\ ChainUnchanged

\* connector.ts fetchArtifacts: the base class has no data source
fetchArtifacts(since) ==
    /\ result' = IF ensureConnected(connected) # ""
                 THEN Threw("fetchArtifacts", <<>>, ensureConnected(connected))
                 ELSE Threw("fetchArtifacts", <<>>, NOT_IMPLEMENTED)
    /\ UNCHANGED <<connected, everConnected, lastLifecycle, kernelModule, calls, clock, uuidCount>>
    /\ ChainUnchanged

\* part_001 fetchArtifacts: the template returns no artifacts
fetchArtifactsTemplate(since) ==
    /\ result' = IF ensureConnected(connected) # ""
                 THEN Threw("fetchArtifacts", <<>>, ensureConnected(connected))
                 ELSE [NoResult EXCEPT !.op = "fetchArtifacts", !.status = "returned",
                                       !.artifacts = <<>>]
    /\ UNCHANGED <<connected, everConnected, lastLifecycle, kernelModule, calls, clock, uuidCount>>
    /\ ChainUnchanged

(***************************************************************************)
(* connector.ts: emitEvidenceBundle                                        *)
(***************************************************************************)
\* the call runs up to the await of the kernel import and suspends
\* mutant: the items are kept in a field of the connector, which every call
\* in flight reads when it resumes
emitEvidenceBundleCallShared(c, items) ==
    /\ calls[c].pc = "idle"
    /\ calls' = [d \in CallIds |->
          IF d = c
          THEN [IdleCall EXCEPT !.pc = "loadKernel", !.via = "emitEvidenceBundle",
                                !.items = items, !.given = items]
          ELSE IF calls[d].pc = "loadKernel"
          THEN [calls[d] EXCEPT !.items = items]
          ELSE calls[d]]
    /\ UNCHANGED <<connected, everConnected, lastLifecycle, kernelModule, result, clock, uuidCount>>
    /\ ChainUnchanged

emitEvidenceBundleCall(c, items) ==
    /\ calls[c].pc = "idle"
    /\ calls' = [calls EXCEPT ![c] = [IdleCall EXCEPT !.pc = "loadKernel",
                                                     !.via = "emitEvidenceBundle",
                                                     !.items = items,
                                                     !.given = items]]
    /\ UNCHANGED <<connected, everConnected, lastLifecycle, kernelModule, result, clock, uuidCount>>
    /\ ChainUnchanged

\* the import settles and the call runs to its end
emitEvidenceBundleResume(c) ==
    /\ calls[c].pc = "loadKernel"
    /\ calls' = [calls EXCEPT ![c] = IdleCall]
    /\ LET items == calls[c].items
           given == calls[c].given
       IN IF loadKernel(kernelModule) # ""
          THEN /\ result' = SettledBy(calls[c],
                                Threw("emitEvidenceBundle", given, loadKernel(kernelModule)))
               /\ UNCHANGED <<clock, uuidCount>>
          ELSE /\ uuidCount < MaxUuid
               /\ uuidCount' = uuidCount + 1
               /\ \E now \in clock..(IF clock < MaxClock THEN clock + 1 ELSE clock) :
                    /\ clock' = now
                    /\ LET createdAt == toISOString(now)
                           bundleId == randomUUID(uuidCount + 1)
                           draft == Draft(bundleId, createdAt, items)
                       IN \E sealed \in SealBundleOutcomes(draft) :
                            result' = SettledBy(calls[c],
                              IF sealed.threw
                              THEN Threw("emitEvidenceBundle", given, KERNEL_THREW)
                              ELSE IF SealedIncomplete(sealed)
                              THEN Threw("emitEvidenceBundle", given, SEALING_FAILED)
                              ELSE [NoResult EXCEPT
                                      !.op = "emitEvidenceBundle",
                                      !.status = "returned", !.input = given,
                                      !.bundle =
                                        [version |-> "0.2.0",
                                         bundle_id |-> bundleId,
                                         created_at |-> createdAt,
                                         items |-> sealed.items,
                                         immutability_proof |->
                                            toProof(sealed.immutabilityProof.hashChain,
                                                    sealed.immutabilityProof.rootHash),
                                         metadata |-> draft.metadata]])
    /\ UNCHANGED <<connected, everConnected, lastLifecycle, kernelModule>>
    /\ ChainUnchanged

\* the object emitEvidenceBundle returns, with the n-th UUID at clock value now
\* buildImmutabilityProof over the item sequences and clock values that
\* emitEvidenceBundle is given here, as an explicit function (the merge with
\* the empty function has it tabulated once)
ProofTable ==
    [p \in SeqsUpTo(ChainItems, MaxItems) \X (0..MaxClock) |->
        buildImmutabilityProof(p[1], p[2])] @@ <<>>

LocalBundle(items, now, n) ==
    LET proof == IF <<items, now>> \in DOMAIN ProofTable
                 THEN ProofTable[<<items, now>>]
                 ELSE buildImmutabilityProof(items, now)
    IN [schemaVersion |-> "0.2.0",
        bundleId |-> randomUUID(n),
        connectorId |-> ConnectorId,
        createdAt |-> toISOString(now),
        items |-> items,
        proof |-> proof]

(***************************************************************************)
(* collectAndEmit: fetch, transform, emit                                  *)
(***************************************************************************)
STAGES == <<"fetchArtifacts", "transformToEvidenceItems", "emitEvidenceBundle">>

\* mutant: a rejected fetch is taken for an empty result
awaitRejectsSwallowed(error) == FALSE

\* await p, for a promise p settled with error ("" when fulfilled): the
\* await throws exactly when p was rejected
awaitRejects(error) == error # ""

\* transformToEvidenceItems(artifacts), drawing the UUIDs after the n-th at
\* clock value now
transformToEvidenceItems(artifacts, n, now) ==
    [i \in 1..Len(artifacts) |->
        [id |-> randomUUID(n + i), source |-> ConnectorId, kind |-> "generic",
         createdAt |-> toISOString(now), payload |-> artifacts[i],
         hasTags |-> FALSE, tags |-> <<>>]]

\* connector.ts collectAndEmit: fetchArtifacts runs to its end inside the
\* call, and the call suspends at the await of its promise
collectAndEmitCall(c, since) ==
    /\ calls[c].pc = "idle"
    /\ calls' = [calls EXCEPT ![c] =
          [IdleCall EXCEPT
              !.pc = "awaitFetch", !.via = "collectAndEmit",
              !.fetchError = IF ensureConnected(connected) # ""
                             THEN ensureConnected(connected)
                             ELSE NOT_IMPLEMENTED,
              !.stages = <<STAGES[1]>>]]
    /\ UNCHANGED <<connected, everConnected, lastLifecycle, kernelModule, result,
                   clock, uuidCount>>
    /\ ChainUnchanged

\* connector.ts collectAndEmit after the await of the fetch: it rethrows, or
\* transforms and runs emitEvidenceBundle up to the await of the kernel import
collectAndEmitResume(c) ==
    /\ calls[c].pc = "awaitFetch"
    /\ calls[c].via = "collectAndEmit"
    /\ IF awaitRejects(calls[c].fetchError)
       THEN /\ result' = SettledBy(calls[c],
                            Threw("collectAndEmit", <<>>, calls[c].fetchError))
            /\ calls' = [calls EXCEPT ![c] = IdleCall]
            /\ UNCHANGED uuidCount
       ELSE /\ uuidCount + Len(calls[c].artifacts) <= MaxUuid
            /\ LET items == transformToEvidenceItems(calls[c].artifacts, uuidCount, clock)
               IN calls' = [calls EXCEPT ![c] =
                     [@ EXCEPT !.pc = "loadKernel", !.items = items, !.given = items,
                               !.stages = STAGES]]
            /\ uuidCount' = uuidCount + Len(calls[c].artifacts)
            /\ UNCHANGED result
    /\ UNCHANGED <<connected, everConnected, lastLifecycle, kernelModule, clock>>
    /\ ChainUnchanged

\* part_001 collectAndEmit: as above, with the template's fetchArtifacts
collectAndEmitTemplateCall(c, since) ==
    /\ calls[c].pc = "idle"
    /\ calls' = [calls EXCEPT ![c] =
          [IdleCall EXCEPT
              !.pc = "awaitFetch", !.via = "collectAndEmitTemplate",
              !.fetchError = ensureConnected(connected),
              !.artifacts = <<>>,
              !.stages = <<STAGES[1]>>]]
    /\ UNCHANGED <<connected, everConnected, lastLifecycle, kernelModule, result,
                   clock, uuidCount>>
    /\ ChainUnchanged

\* part_001 collectAndEmit after the await of the fetch: it rethrows, or
\* transforms and returns the bundle emitEvidenceBundle seals locally
collectAndEmitTemplateResume(c) ==
    /\ calls[c].pc = "awaitFetch"
    /\ calls[c].via = "collectAndEmitTemplate"
    /\ calls' = [calls EXCEPT ![c] = IdleCall]
    /\ IF awaitRejects(calls[c].fetchError)
       THEN /\ result' = SettledBy(calls[c],
                            Threw("collectAndEmit", <<>>, calls[c].fetchError))
            /\ UNCHANGED <<clock, uuidCount>>
       ELSE /\ uuidCount + Len(calls[c].artifacts) < MaxUuid
            /\ \E now \in clock..(IF clock < MaxClock THEN clock + 1 ELSE clock) :
                 LET items == transformToEvidenceItems(calls[c].artifacts, uuidCount, now)
                     n == uuidCount + Len(items) + 1
                 IN /\ clock' = now
                    /\ uuidCount' = n
                    /\ result' = [SettledBy(calls[c], NoResult) EXCEPT
                                     !.status = "returned",
                                     !.input = items, !.stages = STAGES,
                                     !.bundle = LocalBundle(items, now, n)]
    /\ UNCHANGED <<connected, everConnected, lastLifecycle, kernelModule>>
    /\ ChainUnchanged

Next ==
    \/ connect
    \/ disconnect
    \/ \E since \in {"undefined", "T0"} : fetchArtifacts(since)
    \/ \E since \in {"undefined", "T0"} : fetchArtifactsTemplate(since)
    \/ \E c \in CallIds, items \in SeqsUpTo(KernelInputs, MaxDraft) :
         emitEvidenceBundleCall(c, items)
    \/ \E c \in CallIds : emitEvidenceBundleResume(c)
    \/ \E c \in CallIds, since \in {"undefined", "T0"} : collectAndEmitCall(c, since)
    \/ \E c \in CallIds : collectAndEmitResume(c)
    \/ \E c \in CallIds, since \in {"undefined", "T0"} : collectAndEmitTemplateCall(c, since)
    \/ \E c \in CallIds : collectAndEmitTemplateResume(c)

Spec == Init /\ [][Next]_vars

(***************************************************************************)
(* part_001: emitEvidenceBundle (local sealing)                            *)
(***************************************************************************)
emitEvidenceBundleLocal(items) ==
    /\ uuidCount < MaxUuid
    /\ \E now \in clock..(IF clock < MaxClock THEN clock + 1 ELSE clock) :
         /\ previousBundle' = lastBundle
         /\ lastBundle' = LocalBundle(items, now, uuidCount + 1)
         /\ clock' = now
    /\ uuidCount' = uuidCount + 1
    /\ verdict' = NoVerdict
    /\ UNCHANGED <<connected, everConnected, lastLifecycle, kernelModule, calls, result>>

\* items with the payload of the item at position j replaced by p
WithPayload(items, j, p) ==
    [items EXCEPT ![j] = [@ EXCEPT !.payload = p]]

\* A holder of the most recent bundle re-verifies it, possibly after the
\* payload of one item was changed (to PayloadAB3, which no sealed item has).
verifyBundle ==
    /\ lastBundle # NoBundle
    /\ LET b == lastBundle
       IN \/ verdict' = [bundleId |-> b.bundleId, tamperedAt |-> -1]
                          @@ Verifier(b.items, b.proof, clock)
          \/ \E j \in 1..Len(b.items) :
               verdict' = [bundleId |-> b.bundleId, tamperedAt |-> j - 1]
                            @@ Verifier(WithPayload(b.items, j, PayloadAB3), b.proof, clock)
    /\ UNCHANGED <<connected, everConnected, lastLifecycle, kernelModule, calls, result, clock, uuidCount,
                   previousBundle, lastBundle>>

NextChain ==
    \/ \E items \in SeqsUpTo(ChainItems, MaxItems) : emitEvidenceBundleLocal(items)
    \/ verifyBundle

\* part_001 imports no kernel
InitChain == Init /\ kernelModule = "missing"

SpecChain == InitChain /\ [][NextChain]_vars

(***************************************************************************)
(* Claims about the hash chain (part_001), checked under SpecChain         *)
(***************************************************************************)
\* the bundles returned so far that are still remembered
Sealed == {b \in {previousBundle, lastBundle} : b.bundleId # ""}

Links(b) == 1..Len(b.proof.chain)

\* t is s with the items at two distinct positions exchanged
IsSwapOf(s, t) ==
    /\ Len(s) = Len(t)
    /\ \E i, j \in 1..Len(s) :
         i # j /\ t = [s EXCEPT ![i] = s[j], ![j] = s[i]]

\* as IsSwapOf, and the two exchanged items serialize differently
IsSwapOfDistinct(s, t) ==
    /\ Len(s) = Len(t)
    /\ \E i, j \in 1..Len(s) :
         /\ i # j
         /\ JSONstringify(s[i]) # JSONstringify(s[j])
         /\ t = [s EXCEPT ![i] = s[j], ![j] = s[i]]

\* C3 (as claimed): in every proof built, the hash recorded for link i is
\* H(content_hash[i] || previous_hash[i] || i), so two sealed sequences of
\* equal length that differ at position j differ in the link hash at every
\* position i >= j.
C3_ChainHashBindsPredecessor ==
    /\ \A b \in Sealed : \A i \in Links(b) :
         b.proof.chain[i].hash =
            sha256hex(sha256hex(JSONstringify(b.items[i]))
                      \o b.proof.chain[i].previousHash \o ToString(i - 1))
    /\ \A b1, b2 \in Sealed :
         Len(b1.items) = Len(b2.items) =>
            \A j \in Links(b1) : b1.items[j] # b2.items[j] =>
               \A i \in j..Len(b1.items) :
                  b1.proof.chain[i].hash # b2.proof.chain[i].hash

\* C4: the links are in input order (link i covers item i), the first
\* link's previous hash is the genesis sentinel, and every later link's
\* previous hash is the hash of the link before it.
C4_LinksInOrderAndLinked ==
    \A b \in Sealed :
       /\ Len(b.proof.chain) = Len(b.items)
       /\ \A i \in Links(b) :
            /\ b.proof.chain[i].hash = sha256hex(JSONstringify(b.items[i]))
            /\ i = 1 => b.proof.chain[i].previousHash = GENESIS
            /\ i > 1 => b.proof.chain[i].previousHash = b.proof.chain[i - 1].hash

C4_Witness ==
    /\ Len(lastBundle.items) = 3
    /\ lastBundle.items[1] # lastBundle.items[2]
    /\ lastBundle.proof.chain[3].previousHash = lastBundle.proof.chain[2].hash
    /\ lastBundle.proof.chain[2].previousHash # lastBundle.proof.chain[3].previousHash

\* C5: the root hash is H of the link hashes joined in link order, and the
\* root hash of the empty sequence is H("").
C5_RootHashOverChain ==
    \A b \in Sealed :
       /\ b.proof.rootHash = sha256hex(Join(Hashes(b.proof.chain), ""))
       /\ Len(b.items) = 0 => b.proof.rootHash = sha256hex("")

C5_Witness ==
    /\ previousBundle.bundleId # ""
    /\ Len(previousBundle.items) = 0
    /\ previousBundle.proof.rootHash = "H()"
    /\ Len(lastBundle.items) = 3
    /\ lastBundle.proof.rootHash =
         sha256hex(lastBundle.proof.chain[1].hash \o lastBundle.proof.chain[2].hash
                   \o lastBundle.proof.chain[3].hash)

\* C6 (as claimed): sealing a sequence and the same sequence with any two
\* items at distinct positions exchanged gives different root hashes.
C6_AnySwapChangesRoot ==
    \A b1, b2 \in Sealed :
       (b1.bundleId # b2.bundleId /\ IsSwapOf(b1.items, b2.items))
          => b1.proof.rootHash # b2.proof.rootHash

\* C6 (amended): sealing a sequence and the same sequence with two items
\* exchanged whose JSON serializations differ gives different root hashes.
C6_DistinctSwapChangesRoot ==
    \A b1, b2 \in Sealed :
       (b1.bundleId # b2.bundleId /\ IsSwapOfDistinct(b1.items, b2.items))
          => b1.proof.rootHash # b2.proof.rootHash

C6_Witness ==
    /\ previousBundle.bundleId # ""
    /\ Len(previousBundle.items) = 3
    /\ previousBundle.items[1] # previousBundle.items[2]
    /\ lastBundle.items = [previousBundle.items EXCEPT ![1] = previousBundle.items[2],
                                                       ![2] = previousBundle.items[1]]
    /\ lastBundle.proof.rootHash # previousBundle.proof.rootHash

\* C7: two bundles sealed from the identical item sequence carry the same
\* link hashes, previous hashes and root hash, whatever their bundle ids,
\* creation timestamps and the clock readings during sealing.
C7_ResealSameHashes ==
    \A b1, b2 \in Sealed :
       b1.items = b2.items =>
          /\ Hashes(b1.proof.chain) = Hashes(b2.proof.chain)
          /\ \A i \in Links(b1) :
               b1.proof.chain[i].previousHash = b2.proof.chain[i].previousHash
          /\ b1.proof.rootHash = b2.proof.rootHash

C7_Witness ==
    /\ previousBundle.bundleId # ""
    /\ Len(lastBundle.items) >= 2
    /\ previousBundle.items = lastBundle.items
    /\ previousBundle.bundleId # lastBundle.bundleId
    /\ previousBundle.createdAt # lastBundle.createdAt
    /\ previousBundle.proof.chain[1].timestamp # lastBundle.proof.chain[1].timestamp
    /\ previousBundle.proof.rootHash = lastBundle.proof.rootHash

\* C9 (as claimed): two sealed items that are structurally equal (same
\* fields, same payload entries, whatever the key insertion order) are
\* serialized to the same string and so get the same content hash.
C9_KeyOrderIrrelevant ==
    \A b1, b2 \in Sealed : \A i \in Links(b1), j \in Links(b2) :
       StructurallyEqual(b1.items[i], b2.items[j]) =>
          /\ JSONstringify(b1.items[i]) = JSONstringify(b2.items[j])
          /\ b1.proof.chain[i].hash = b2.proof.chain[j].hash

\* C10: when the payload of one item of a sealed bundle was changed and the
\* chain is recomputed and compared link by link with the bundle's proof,
\* the result is Tampered and the first divergent sequence number is the
\* position of the changed item.
C10_TamperDetectedAtPosition ==
    verdict.tamperedAt >= 0 =>
       /\ verdict.status = "Tampered"
       /\ verdict.at = verdict.tamperedAt

C10_Witness ==
    /\ Len(lastBundle.items) = 3
    /\ verdict.bundleId = lastBundle.bundleId
    /\ verdict.tamperedAt = 1
    /\ verdict.status = "Tampered"
    /\ verdict.at = 1

(***************************************************************************)
(* Claims about the connector (connector.ts), checked under Spec           *)
(***************************************************************************)
\* C1: while no connect() has completed since construction, a settled
\* fetchArtifacts() call has thrown the not-connected error and has
\* returned no artifact list.
C1_FetchBeforeConnectFails ==
    (~everConnected /\ result.op = "fetchArtifacts") =>
       /\ result.status = "threw"
       /\ result.error = NOT_CONNECTED

C1_Witness ==
    /\ ~everConnected
    /\ result.op = "fetchArtifacts"
    /\ result.status = "threw"
    /\ result.error = NOT_CONNECTED

\* C2: emitEvidenceBundle returns a bundle only when the kernel was loaded
\* and exposes sealBundle, and every returned bundle carries items, a hash
\* chain and a non-empty root hash.
C2_NoBundleWithoutProof ==
    (result.op = "emitEvidenceBundle" /\ result.status = "returned") =>
       /\ kernelModule = "ok"
       /\ result.bundle.items.defined
       /\ result.bundle.immutability_proof.hash_chain.defined
       /\ result.bundle.immutability_proof.root_hash.defined
       /\ result.bundle.immutability_proof.root_hash.value # ""

C2_Witness ==
    /\ result.op = "emitEvidenceBundle"
    /\ result.status = "returned"
    /\ Len(result.input) = 1
    /\ Len(result.bundle.immutability_proof.hash_chain.value) = 1
    /\ result.bundle.immutability_proof.root_hash.value = "sha256:root"

\* C8 (as claimed): every returned bundle has as many links in its hash
\* chain as items, and each link's item_id is the item_id of the item at
\* the same position.
C8_ItemsMatchChain ==
    (result.op = "emitEvidenceBundle" /\ result.status = "returned") =>
       LET items == result.bundle.items.value
           chain == result.bundle.immutability_proof.hash_chain.value
       IN /\ Len(items) = Len(chain)
          /\ Len(result.input) = Len(chain)
          /\ \A i \in 1..Len(chain) : chain[i].item_id = items[i].item_id

\* C11: a fetchArtifacts() call raises the not-connected error exactly when
\* the most recent completed lifecycle call is not connect() (none yet, or
\* disconnect()), and it leaves the connection state as it was.
C11_NotConnectedIffNoConnect ==
    [][(\E since \in {"undefined", "T0"} :
          fetchArtifacts(since) \/ fetchArtifactsTemplate(since))
       => /\ (result'.status = "threw" /\ result'.error = NOT_CONNECTED)
                <=> (lastLifecycle # "connect")
          /\ connected' = connected
          /\ lastLifecycle' = lastLifecycle]_vars

\* a fetch that went through while connect() was the latest lifecycle call
C11_Witness ==
    /\ lastLifecycle = "connect"
    /\ connected
    /\ result.op = "fetchArtifacts"
    /\ result.status = "returned"


\* the public collectAndEmit of either variant
CollectOps == {"collectAndEmit", "collectAndEmitTemplate"}

\* C12: collectAndEmit runs fetchArtifacts, transformToEvidenceItems and
\* emitEvidenceBundle in that order; when the fetch fails the call fails with
\* the fetch's error, it never reaches the transformation or the sealing and
\* no bundle comes out of it; a bundle is returned only after a fetch that
\* succeeded.
C12_FetchFailureStopsPipeline ==
    /\ [](/\ \A c \in CallIds :
               calls[c].via \in CollectOps =>
                  /\ calls[c].stages = SubSeq(STAGES, 1, Len(calls[c].stages))
                  /\ calls[c].fetchError # "" =>
                        /\ calls[c].pc = "awaitFetch"
                        /\ calls[c].stages = <<"fetchArtifacts">>
          /\ result.op \in CollectOps =>
               /\ result.stages = SubSeq(STAGES, 1, Len(result.stages))
               /\ Len(result.stages) >= 1
               /\ result.fetchError # "" =>
                     /\ result.status = "threw"
                     /\ result.error = result.fetchError
                     /\ result.stages = <<"fetchArtifacts">>
                     /\ result.bundle = NoWireBundle
               /\ result.status = "returned" =>
                     /\ result.fetchError = ""
                     /\ result.stages = STAGES)
    /\ [][\A c \in CallIds :
            ((collectAndEmitResume(c) \/ collectAndEmitTemplateResume(c))
               /\ calls[c].fetchError # "")
            => /\ result'.status = "threw"
               /\ result'.error = calls[c].fetchError
               /\ calls'[c].pc = "idle"
               /\ result'.bundle = NoWireBundle
               /\ uuidCount' = uuidCount]_vars

\* a collectAndEmit() on a connector that is not connected has failed with
\* the error of its fetch, after the fetch alone
C12_Witness ==
    /\ result.op = "collectAndEmit"
    /\ result.status = "threw"
    /\ result.fetchError = NOT_CONNECTED
    /\ result.error = NOT_CONNECTED
    /\ result.stages = <<"fetchArtifacts">>


\* C13: emitEvidenceBundle calls interleaved at the await of the kernel import
\* do not touch each other: a step of one call leaves the frame of every
\* other call, the connection state and the connector id as they were, and
\* each returned bundle is the sealing of the draft built from that call's
\* own items in their order, under a bundle_id and a created_at drawn by
\* that call.
C13_InterleavedCallsIndependent ==
    /\ [](result.op = "emitEvidenceBundle" /\ result.status = "returned" =>
            LET b == result.bundle
                draft == Draft(b.bundle_id, b.created_at, result.input)
            IN /\ \E sealed \in SealBundleOutcomes(draft) :
                     /\ ~sealed.threw
                     /\ ~SealedIncomplete(sealed)
                     /\ b.items = sealed.items
                     /\ b.immutability_proof =
                           toProof(sealed.immutabilityProof.hashChain,
                                   sealed.immutabilityProof.rootHash)
               /\ Len(draft.items) = Len(result.input)
               /\ b.metadata.connector_id = ConnectorId)
    /\ [][\A c \in CallIds :
            \* call c enters emitEvidenceBundle, or resumes in it and settles
            ((calls[c].pc = "idle" /\ calls'[c].pc = "loadKernel"
                 /\ calls'[c].via = "emitEvidenceBundle")
               \/ (calls[c].pc = "loadKernel" /\ calls[c].via = "emitEvidenceBundle"
                     /\ calls'[c].pc = "idle"))
            => /\ \A d \in CallIds \ {c} : calls'[d] = calls[d]
               /\ connected' = connected
               /\ lastLifecycle' = lastLifecycle
               /\ (calls[c].pc = "loadKernel" /\ calls[c].via = "emitEvidenceBundle"
                     /\ result'.status = "returned") =>
                     /\ result'.input = calls[c].given
                     /\ result'.bundle.bundle_id = randomUUID(uuidCount')
                     /\ uuidCount' = uuidCount + 1
                     /\ result'.bundle.created_at = toISOString(clock')]_vars

\* a call has returned the bundle of its own item while the other call,
\* given different items, is still suspended at the kernel import
C13_Witness ==
    /\ result.op = "emitEvidenceBundle"
    /\ result.status = "returned"
    /\ Len(result.input) = 1
    /\ result.bundle.items = Some(KernelItems(Draft(result.bundle.bundle_id,
                                                    result.bundle.created_at,
                                                    result.input)))
    /\ \E d \in CallIds :
         /\ calls[d].pc = "loadKernel"
         /\ calls[d].via = "emitEvidenceBundle"
         /\ Len(calls[d].given) = 1
         /\ calls[d].given # result.input

====
